---- MODULE Spec2Model ----
(***************************************************************************)
(* A model of the bulldag crate: the insert-only DAG container BullDag     *)
(* (src/src/graph.rs) with its Vertex (src/src/vertex.rs) and Edge         *)
(* (src/src/edge.rs) values.                                               *)
(*                                                                         *)
(* The graph is the record [roots, leaves, vertices, edges]; every method  *)
(* of BullDag is an operator from a graph to the graphs (or results) the   *)
(* method can produce.  A method whose outcome depends on the iteration    *)
(* order of a HashSet yields one outcome per order.                        *)
(***************************************************************************)
EXTENDS Integers, FiniteSets, Sequences

\* ------------------------------------------------------------------ bounds
\* Longest slice handed to extend_from_edges / add_vertices.
MaxBatch == 2

\* The vertex keys (Ix = &str, as in the crate's tests).  Three keys hold every
\* cycle of length 1, 2 and 3 and the DAG a->b, b->c, a->c, in which a walk
\* meets c twice.
Keys == {"a", "b", "c"}

\* The payloads (T).  Two are enough to tell a kept payload from a replaced one.
Payloads == {"p", "q"}

\* The payload the calls of a run pass.  No method reads a payload, so the runs
\* store one; the statements about payloads also pass the other one.
CallerPayloads == {"p"}

VARIABLES
    roots,          \* BullDag.roots
    leaves,         \* BullDag.leaves
    vertices,       \* BullDag.vertices: a function from the stored keys
    edges,          \* BullDag.edges
    call,           \* history: the last call made on the graph
    seenKeys,       \* history: keys of accepted edges and of add_vertex calls
    removedRoots,   \* history: keys a call took out of roots
    removedLeaves   \* history: keys a call took out of leaves

gvars == <<roots, leaves, vertices, edges>>
vars == <<roots, leaves, vertices, edges, call, seenKeys, removedRoots, removedLeaves>>

\* The graph the variables hold.
Graph == [roots |-> roots, leaves |-> leaves, vertices |-> vertices, edges |-> edges]

\* ------------------------------------------------------------- Edge, Vertex
edge_new(source, reference) == [source |-> source, reference |-> reference]

vertex_new(data, index) ==
    [data |-> data, sources |-> {}, references |-> {}, index |-> index]

add_source(v, source) == [v EXCEPT !.sources = @ \cup {source}]

add_reference(v, reference) == [v EXCEPT !.references = @ \cup {reference}]

\* Vertex::add_edge whose second branch calls add_reference: the vertex that is
\* the edge's reference files the edge's source among its references.
vertex_add_edge_swapped(v, e) ==
    LET v1 == IF e.source = v.index THEN add_reference(v, e.reference) ELSE v
    IN  IF e.reference = v.index THEN add_reference(v1, e.source) ELSE v1

\* Vertex::add_edge: two independent tests, so a self-loop edge enters both sets.
vertex_add_edge(v, e) ==
    LET v1 == IF e.source = v.index THEN add_reference(v, e.reference) ELSE v
    IN  IF e.reference = v.index THEN add_source(v1, e.source) ELSE v1

is_reference(v, target) == target \in v.references

is_source(v, target) == target \in v.sources

n_sources(v) == Cardinality(v.sources)

n_references(v) == Cardinality(v.references)

\* From<&(&Vertex, &Vertex)> for Edge: the pair's keys.
edge_from(pair) == edge_new(pair[1].index, pair[2].index)

\* ------------------------------------------------------------------ BullDag
\* A constructor that starts with a root no vertex backs.
new_graph_rooted == [roots |-> {"a"}, leaves |-> {}, vertices |-> <<>>, edges |-> {}]

\* BullDag::new
new_graph == [roots |-> {}, leaves |-> {}, vertices |-> <<>>, edges |-> {}]

\* An insert that leaves k as the map's only key.
map_insert_alone(m, k, v) == [x \in {k} |-> v]

\* HashMap::insert: add or replace the value under key k.
map_insert(m, k, v) == [x \in (DOMAIN m) \cup {k} |-> IF x = k THEN v ELSE m[x]]

has_vertex(g, k) == k \in DOMAIN g.vertices

add_root(g, index) == [g EXCEPT !.roots = @ \cup {index}]

clean_root(g, index) ==
    IF index \in g.roots /\ has_vertex(g, index) /\ g.vertices[index].sources # {}
    THEN [g EXCEPT !.roots = @ \ {index}]
    ELSE g

\* add_leaf that inserts into roots.
add_leaf_as_root(g, index) == add_root(g, index)

add_leaf(g, index) == [g EXCEPT !.leaves = @ \cup {index}]

\* clean_leaf that leaves the set as it is.
clean_leaf_skipped(g, index) == g

clean_leaf(g, index) ==
    IF index \in g.leaves /\ has_vertex(g, index) /\ g.vertices[index].references # {}
    THEN [g EXCEPT !.leaves = @ \ {index}]
    ELSE g

len(g) == Cardinality(DOMAIN g.vertices)

is_empty(g) == len(g) = 0

n_edges(g) == Cardinality(g.edges)

n_roots(g) == Cardinality(g.roots)

n_leaves(g) == Cardinality(g.leaves)

\* add_vertex that keeps the vertex already stored under the key.
add_vertex_keeps_stored(g, vertex) ==
    LET g1 == IF vertex.sources = {} THEN add_root(g, vertex.index) ELSE g
        g2 == IF vertex.references = {} THEN add_leaf(g1, vertex.index) ELSE g1
    IN  IF has_vertex(g, vertex.index) THEN g2
        ELSE [g2 EXCEPT !.vertices = map_insert(@, vertex.index, vertex)]

add_vertex(g, vertex) ==
    LET g1 == IF vertex.sources = {} THEN add_root(g, vertex.index) ELSE g
        g2 == IF vertex.references = {} THEN add_leaf(g1, vertex.index) ELSE g1
    IN  [g2 EXCEPT !.vertices = map_insert(@, vertex.index, vertex)]

RECURSIVE add_vertices(_, _)
add_vertices(g, vs) ==
    IF vs = <<>> THEN g ELSE add_vertices(add_vertex(g, Head(vs)), Tail(vs))

\* ------------------------------------------------------------------- trace
\* Vec::contains.
contains(stack, k) == \E i \in 1..Len(stack) : stack[i] = k

\* A push without the membership test.
push_always(stack, k) == Append(stack, k)

\* The push both walks end with: if !stack.contains(k) { stack.push(k) }.
push_new(stack, k) == IF contains(stack, k) THEN stack ELSE Append(stack, k)

\* A walk's outcome: done = TRUE with the stack it leaves, or done = FALSE when
\* the recursion re-enters a key it is still inside and so never returns.
Returned(stack) == [done |-> TRUE, stack |-> stack]

Overflowed(stack) == [done |-> FALSE, stack |-> stack]

RECURSIVE get_sources(_, _, _, _)
RECURSIVE visit_sources(_, _, _, _)
\* get_sources that records the target before it walks the target's sources.
get_sources_preorder(g, target, stack, path) ==
    IF target.index \in path THEN {Overflowed(stack)}
    ELSE LET kept == {e \in g.edges : e.reference = target.index}
             sources == {e.source : e \in kept}
         IN  visit_sources(g, sources, {Returned(push_new(stack, target.index))},
                           path \cup {target.index})

\* BullDag::get_sources from `target` with the stack so far; `path` holds the
\* keys of the calls still open.  The result is the set of outcomes, one per
\* iteration order of the filtered edge set.
get_sources(g, target, stack, path) ==
    IF target.index \in path THEN {Overflowed(stack)}
    ELSE LET kept == {e \in g.edges : e.reference = target.index}
             sources == {e.source : e \in kept}
             after == visit_sources(g, sources, {Returned(stack)}, path \cup {target.index})
         IN  {IF o.done THEN Returned(push_new(o.stack, target.index)) ELSE o : o \in after}

\* The for loop of get_sources over `todo`, in every order, from each outcome.
visit_sources(g, todo, outs, path) ==
    IF todo = {} THEN outs
    ELSE UNION {visit_sources(g, todo \ {source},
                    UNION {IF o.done /\ has_vertex(g, source)
                           THEN get_sources(g, g.vertices[source], o.stack, path)
                           ELSE {o} : o \in outs},
                    path) : source \in todo}

\* get_references that walks the sources, as get_sources does.
get_references_walks_sources(g, target, stack, path) ==
    get_sources(g, target, stack, path)

RECURSIVE get_references(_, _, _, _)
RECURSIVE visit_references(_, _, _, _)
get_references(g, target, stack, path) ==
    IF target.index \in path THEN {Overflowed(stack)}
    ELSE LET kept == {e \in g.edges : e.source = target.index}
             references == {e.reference : e \in kept}
             after == visit_references(g, references, {Returned(stack)}, path \cup {target.index})
         IN  {IF o.done THEN Returned(push_new(o.stack, target.index)) ELSE o : o \in after}

visit_references(g, todo, outs, path) ==
    IF todo = {} THEN outs
    ELSE UNION {visit_references(g, todo \ {reference},
                    UNION {IF o.done /\ has_vertex(g, reference)
                           THEN get_references(g, g.vertices[reference], o.stack, path)
                           ELSE {o} : o \in outs},
                    path) : reference \in todo}

\* trace without its walk: only the target's own key is recorded.
trace_no_walk(g, target, direction) == {Returned(<<target.index>>)}

\* trace that leaves the target's own key out of what it returns.
trace_without_target(g, target, direction) ==
    {IF o.done /\ Len(o.stack) > 0
     THEN Returned(SubSeq(o.stack, 1, Len(o.stack) - 1)) ELSE o
     : o \in IF direction = "Source"
              THEN get_sources(g, target, <<>>, {})
              ELSE get_references(g, target, <<>>, {})}

\* BullDag::trace: the outcomes of the walk in `direction` from an empty stack.
trace(g, target, direction) ==
    IF direction = "Source"
    THEN get_sources(g, target, <<>>, {})
    ELSE get_references(g, target, <<>>, {})

\* ------------------------------------------------------------ check_cycles
\* auto_source_cycle without its emptiness test.
auto_source_cycle_any(g) == n_roots(g) = 0

auto_source_cycle(g) == n_roots(g) = 0 /\ ~is_empty(g)

\* auto_ref_cycle that never fires.
auto_ref_cycle_off(g) == FALSE

auto_ref_cycle(g) == n_leaves(g) = 0 /\ ~is_empty(g)

\* check_cycles with the fast path only: neither trace is taken.
check_cycles_fast_only(g, edge) ==
    IF auto_source_cycle(g) \/ auto_ref_cycle(g) THEN {"WouldCycle"} ELSE {"Ok"}

\* The results check_cycles can give for the pair `edge` of caller vertices:
\* "Ok", "WouldCycle", or "Overflow" when one of its traces never returns.
check_cycles(g, edge) ==
    IF auto_source_cycle(g) \/ auto_ref_cycle(g) THEN {"WouldCycle"}
    ELSE UNION {
        IF ~st.done THEN {"Overflow"}
        ELSE IF contains(st.stack, edge[2].index) THEN {"WouldCycle"}
        ELSE {IF ~rt.done THEN "Overflow"
              ELSE IF contains(rt.stack, edge[1].index) THEN "WouldCycle"
              ELSE "Ok" : rt \in trace(g, edge[2], "Reference")}
        : st \in trace(g, edge[1], "Source")}

\* ---------------------------------------------------------------- add_edge
\* The source side storing the caller's vertex whether or not the key is stored.
commit_source_caller(g, source, e) == clean_leaf(add_vertex(g, source), source.index)

\* Lines 169-176: the source side of an accepted edge.
commit_source(g, source, e) ==
    IF has_vertex(g, source.index)
    THEN LET updated_vtx == vertex_add_edge(g.vertices[source.index], e)
         IN  clean_leaf(add_vertex(g, updated_vtx), updated_vtx.index)
    ELSE add_vertex(g, source)

\* The reference side without its else branch: an absent key is not inserted.
commit_reference_stored_only(g, reference, e) ==
    IF has_vertex(g, reference.index)
    THEN LET updated_vtx == vertex_add_edge(g.vertices[reference.index], e)
         IN  clean_root(add_vertex(g, updated_vtx), updated_vtx.index)
    ELSE g

\* The reference side storing the caller's vertex whether or not the key is
\* stored.
commit_reference_caller(g, reference, e) ==
    clean_root(add_vertex(g, reference), reference.index)

\* Lines 187-194: the reference side of an accepted edge.
commit_reference(g, reference, e) ==
    IF has_vertex(g, reference.index)
    THEN LET updated_vtx == vertex_add_edge(g.vertices[reference.index], e)
         IN  clean_root(add_vertex(g, updated_vtx), updated_vtx.index)
    ELSE add_vertex(g, reference)

\* add_edge with the edge inserted outside the check's branch.
add_edge_inserts_always(g, edge) ==
    LET e == edge_from(edge)
        source == vertex_add_edge(edge[1], e)
        reference == vertex_add_edge(edge[2], e)
        g1 == commit_source(g, source, e)
        g2 == commit_reference(g1, reference, e)
        g3 == [g2 EXCEPT !.edges = @ \cup {e}]
    IN  {IF c = "Ok" THEN [g |-> g3, ok |-> TRUE]
         ELSE [g |-> [g EXCEPT !.edges = @ \cup {e}], ok |-> FALSE]
         : c \in check_cycles(g, edge) \ {"Overflow"}}

\* add_edge whose last line assigns the edge set instead of inserting into it:
\* the new edge is the only one kept.
add_edge_keeps_last_edge(g, edge) ==
    LET e == edge_from(edge)
        source == vertex_add_edge(edge[1], e)
        reference == vertex_add_edge(edge[2], e)
        g1 == commit_source(g, source, e)
        g2 == commit_reference(g1, reference, e)
        g3 == [g2 EXCEPT !.edges = {e}]
    IN  {IF c = "Ok" THEN [g |-> g3, ok |-> TRUE] ELSE [g |-> g, ok |-> FALSE]
         : c \in check_cycles(g, edge) \ {"Overflow"}}

\* add_edge that stores the two vertices before the check decides: a dropped
\* pair still leaves its keys in the vertices' neighbour sets.
add_edge_commits_before_check(g, edge) ==
    LET e == edge_from(edge)
        source == vertex_add_edge(edge[1], e)
        reference == vertex_add_edge(edge[2], e)
        g1 == commit_source(g, source, e)
        g2 == commit_reference(g1, reference, e)
        g3 == [g2 EXCEPT !.edges = @ \cup {e}]
    IN  {IF c = "Ok" THEN [g |-> g3, ok |-> TRUE] ELSE [g |-> g2, ok |-> FALSE]
         : c \in check_cycles(g, edge) \ {"Overflow"}}

\* BullDag::add_edge on the pair `edge` of caller vertices: the outcomes
\* [g: the graph afterwards, ok: whether check_cycles passed].  A check that
\* overflows the stack ends the program and leaves no outcome.
add_edge(g, edge) ==
    LET e == edge_from(edge)
        source == vertex_add_edge(edge[1], e)
        reference == vertex_add_edge(edge[2], e)
        g1 == commit_source(g, source, e)
        g2 == commit_reference(g1, reference, e)
        g3 == [g2 EXCEPT !.edges = @ \cup {e}]
    IN  {IF c = "Ok" THEN [g |-> g3, ok |-> TRUE] ELSE [g |-> g, ok |-> FALSE]
         : c \in check_cycles(g, edge) \ {"Overflow"}}

RECURSIVE extend_from_edges(_, _)
\* extend_from_edges that keeps its two clones: each is stored in the graph
\* before add_edge runs on the pair.
extend_from_edges_stores_clones(g, es) ==
    IF es = <<>> THEN {[g |-> g, accepted |-> {}]}
    ELSE LET edge == edge_from(Head(es))
             src == vertex_add_edge(Head(es)[1], edge)
             r == vertex_add_edge(Head(es)[2], edge)
             kept == [g EXCEPT !.vertices = map_insert(map_insert(@, src.index, src),
                                                       r.index, r)]
         IN  UNION {
                {[g |-> rest.g,
                  accepted |-> rest.accepted \cup (IF first.ok THEN {edge} ELSE {})]
                 : rest \in extend_from_edges(first.g, Tail(es))}
                : first \in add_edge(kept, Head(es))}

\* BullDag::extend_from_edges: for every pair in order, two clones absorb the
\* pair's edge (the stored vertex's clone if the key is stored, else the
\* caller's) and go out of scope, then add_edge runs on the pair.  Outcomes
\* [g, accepted: the edges whose check passed].
extend_from_edges(g, es) ==
    IF es = <<>> THEN {[g |-> g, accepted |-> {}]}
    ELSE LET edge == edge_from(Head(es))
             source == Head(es)[1].index
             reference == Head(es)[2].index
             src == vertex_add_edge(IF has_vertex(g, source) THEN g.vertices[source]
                                    ELSE Head(es)[1], edge)
             r == vertex_add_edge(IF has_vertex(g, reference) THEN g.vertices[reference]
                                  ELSE Head(es)[2], edge)
         IN  UNION {
                {[g |-> rest.g,
                  accepted |-> rest.accepted \cup (IF first.ok THEN {edge} ELSE {})]
                 : rest \in extend_from_edges(first.g, Tail(es))}
                : first \in add_edge(g, Head(es))}

\* -------------------------------------------------------- topological_sort
RECURSIVE dfs(_, _, _, _)
RECURSIVE visit_dfs(_, _, _, _)
\* BullDag::dfs: walks the stored references of `vertex` (not the edge set).
dfs(g, vertex, stack, path) ==
    IF vertex.index \in path THEN {Overflowed(stack)}
    ELSE LET after == visit_dfs(g, vertex.references, {Returned(stack)},
                                path \cup {vertex.index})
         IN  {IF o.done THEN Returned(push_new(o.stack, vertex.index)) ELSE o : o \in after}

visit_dfs(g, todo, outs, path) ==
    IF todo = {} THEN outs
    ELSE UNION {visit_dfs(g, todo \ {r},
                    UNION {IF o.done /\ has_vertex(g, r)
                           THEN dfs(g, g.vertices[r], o.stack, path)
                           ELSE {o} : o \in outs},
                    path) : r \in todo}

reverse(s) == [i \in 1..Len(s) |-> s[Len(s) + 1 - i]]

\* BullDag::topological_sort: the results [res, order] it can give.
topological_sort(g) ==
    IF g.roots = {} \/ g.leaves = {} THEN {[res |-> "WouldCycle", order |-> <<>>]}
    ELSE {IF o.done THEN [res |-> "Ok", order |-> reverse(o.stack)]
          ELSE [res |-> "Overflow", order |-> <<>>]
          : o \in visit_dfs(g, g.roots, {Returned(<<>>)}, {})}

\* ----------------------------------------------------------------- actions
\* add_edge takes any pair of keys; a slice entry of extend_from_edges is a pair
\* of two different vertices (a vertex paired with itself goes through add_edge).
CallerPairs == Keys \X Keys

BatchPairs == {p \in CallerPairs : p[1] # p[2]}

\* The slices of 0..MaxBatch entries a caller can pass.
EdgeBatches == UNION {[1..n -> BatchPairs] : n \in 0..MaxBatch}

VertexBatches == UNION {[1..n -> Keys \X CallerPayloads] : n \in 0..MaxBatch}

\* The caller's slice for the key pairs ks, every vertex built by Vertex::new.
edge_slice(ks, d) ==
    [i \in DOMAIN ks |-> <<vertex_new(d, ks[i][1]), vertex_new(d, ks[i][2])>>]

vertex_slice(kd) == [i \in DOMAIN kd |-> vertex_new(kd[i][2], kd[i][1])]

\* The variables take the graph g.  With `track`, the histories note the keys
\* that left roots and leaves.
Install(g, track) ==
    /\ roots' = g.roots
    /\ leaves' = g.leaves
    /\ vertices' = g.vertices
    /\ edges' = g.edges
    /\ removedRoots' = IF track THEN removedRoots \cup (roots \ g.roots) ELSE removedRoots
    /\ removedLeaves' = IF track THEN removedLeaves \cup (leaves \ g.leaves) ELSE removedLeaves

\* BullDag::new()
Init ==
    /\ roots = new_graph.roots
    /\ leaves = new_graph.leaves
    /\ vertices = new_graph.vertices
    /\ edges = new_graph.edges
    /\ call = [op |-> "new", ok |-> TRUE]
    /\ seenKeys = {}
    /\ removedRoots = {}
    /\ removedLeaves = {}

\* graph.add_edge(&(&Vertex::new(ds, s), &Vertex::new(dr, r)))
AddEdgeCall(track) ==
    \E s \in Keys, r \in Keys, ds \in CallerPayloads, dr \in CallerPayloads :
        \E out \in add_edge(Graph, <<vertex_new(ds, s), vertex_new(dr, r)>>) :
            /\ Install(out.g, track)
            /\ call' = [op |-> "add_edge", ok |-> out.ok]
            /\ seenKeys' = seenKeys \cup (IF out.ok THEN {s, r} ELSE {})

\* graph.extend_from_edges(&es)
ExtendFromEdgesCall(track) ==
    \E ks \in EdgeBatches, d \in CallerPayloads :
        \E out \in extend_from_edges(Graph, edge_slice(ks, d)) :
            /\ Install(out.g, track)
            /\ call' = [op |-> "extend_from_edges", ok |-> TRUE]
            /\ seenKeys' = seenKeys
                   \cup {e.source : e \in out.accepted}
                   \cup {e.reference : e \in out.accepted}

\* graph.add_vertex(&Vertex::new(d, k))
AddVertexCall(track) ==
    \E k \in Keys, d \in CallerPayloads :
        /\ Install(add_vertex(Graph, vertex_new(d, k)), track)
        /\ call' = [op |-> "add_vertex", ok |-> TRUE]
        /\ seenKeys' = seenKeys \cup {k}

\* graph.add_vertices(&vs)
AddVerticesCall(track) ==
    \E kd \in VertexBatches :
        /\ Install(add_vertices(Graph, vertex_slice(kd)), track)
        /\ call' = [op |-> "add_vertices", ok |-> TRUE]
        /\ seenKeys' = seenKeys \cup {kd[i][1] : i \in DOMAIN kd}

AddEdge == AddEdgeCall(FALSE)

ExtendFromEdges == ExtendFromEdgesCall(FALSE)

AddVertex == AddVertexCall(FALSE)

AddVertices == AddVerticesCall(FALSE)

\* Every insertion operation, on vertices built by Vertex::new.
Next == AddEdge \/ ExtendFromEdges \/ AddVertex \/ AddVertices

Spec == Init /\ [][Next]_vars

\* The same calls, with removedRoots and removedLeaves kept.
AddEdgeTracked == AddEdgeCall(TRUE)

ExtendFromEdgesTracked == ExtendFromEdgesCall(TRUE)

\* Runs that only submit edges.
NextEdges == AddEdgeTracked \/ ExtendFromEdgesTracked

SpecEdges == Init /\ [][NextEdges]_vars

AddVertexTracked == AddVertexCall(TRUE)

AddVerticesTracked == AddVerticesCall(TRUE)

NextTracked ==
    AddEdgeTracked \/ ExtendFromEdgesTracked \/ AddVertexTracked \/ AddVerticesTracked

SpecTracked == Init /\ [][NextTracked]_vars

\* The keys of the runs whose callers build their vertices with Vertex::add_edge:
\* two keys hold a stored vertex, another one, and a cycle of stored references.
BuiltKeys == {"a", "b"}

\* The edges a caller's vertex of key k can absorb: those with k at an end.
edges_at(k) ==
    {edge_new(k, x) : x \in BuiltKeys} \cup {edge_new(x, k) : x \in BuiltKeys}

RECURSIVE absorb(_, _)
\* v.add_edge(&e) for every e of es (Vertex::add_edge is public, so a caller's
\* vertex need not have empty neighbour sets).
absorb(v, es) ==
    IF es = {} THEN v
    ELSE LET e == CHOOSE x \in es : TRUE
         IN  absorb(vertex_add_edge(v, e), es \ {e})

\* The edge sets a caller lets a vertex of key k absorb before handing it over.
CallerAbsorbed(k) == SUBSET edges_at(k)

\* The vertices a caller can hand over for key k with payload d.
BuiltVertices(k, d) == {absorb(vertex_new(d, k), es) : es \in CallerAbsorbed(k)}

\* graph.add_vertex(&v), v built by Vertex::new and Vertex::add_edge
AddVertexBuilt ==
    \E k \in BuiltKeys, d \in CallerPayloads :
        \E v \in BuiltVertices(k, d) :
            /\ Install(add_vertex(Graph, v), FALSE)
            /\ call' = [op |-> "add_vertex", ok |-> TRUE]
            /\ seenKeys' = seenKeys \cup {k}

\* graph.add_edge(&(&vs, &vr)), both built by Vertex::new and Vertex::add_edge
AddEdgeBuilt ==
    \E s \in BuiltKeys, r \in BuiltKeys, d \in CallerPayloads :
        \E vs \in BuiltVertices(s, d), vr \in BuiltVertices(r, d) :
            \E out \in add_edge(Graph, <<vs, vr>>) :
                /\ Install(out.g, FALSE)
                /\ call' = [op |-> "add_edge", ok |-> out.ok]
                /\ seenKeys' = seenKeys \cup (IF out.ok THEN {s, r} ELSE {})

\* Runs whose callers hand over vertices that already carry neighbours.
NextBuilt == AddVertexBuilt \/ AddEdgeBuilt

SpecBuilt == Init /\ [][NextBuilt]_vars

\* ------------------------------------------------------- graph vocabulary
\* The keys one edge of E leads to from a key of S.
step_from(E, S) == {e.reference : e \in {x \in E : x.source \in S}}

RECURSIVE reach_from(_, _, _)
\* The keys a directed path of one or more edges of E reaches from `frontier`.
reach_from(E, frontier, found) ==
    LET next == step_from(E, frontier) \ found
    IN  IF next = {} THEN found ELSE reach_from(E, next, found \cup next)

\* There is a directed path (of length >= 1) from x to y in E.
HasPath(E, x, y) == y \in reach_from(E, {x}, {})

\* The pair of Vertex::new vertices a caller submits for the keys s, r.
new_pair(s, ds, r, dr) == <<vertex_new(ds, s), vertex_new(dr, r)>>

\* ---------------------------------------------------------------------- C1
\* C1 (acyclicity): in every state the insertion operations reach from the
\* empty graph, no key has a directed path of edges back to itself (no cycle
\* of any length, self-loops included).
C1_Acyclic == \A k \in Keys : ~HasPath(edges, k, k)

\* The last call was an add_edge that was dropped, in a graph where some key r
\* is an ancestor of another key s and add_edge drops the submission (s, r).
C1_Witness ==
    /\ call.op = "add_edge" /\ ~call.ok
    /\ \E s \in Keys, r \in Keys :
        /\ s # r
        /\ HasPath(edges, r, s)
        /\ edge_new(r, s) \notin edges
        /\ \A out \in add_edge(Graph, new_pair(s, "p", r, "p")) : ~out.ok

\* ---------------------------------------------------------------------- C2
\* C2 (no partial mutation): a step in which add_edge drops its submission
\* (check_cycles gave WouldCycle) leaves roots, leaves, vertices (keys,
\* payloads, neighbour sets) and edges as they were before the call.
C2_NoPartialMutation ==
    [][(call'.op = "add_edge" /\ ~call'.ok) => UNCHANGED gvars]_vars

\* An add_edge was just dropped from a graph that holds edges.
C2_Witness == call.op = "add_edge" /\ ~call.ok /\ edges # {} /\ len(Graph) >= 2

\* ---------------------------------------------------------------------- C3
\* C3 (root/leaf consistency): with caller vertices built by Vertex::new, every
\* stored vertex is in roots exactly when its sources are empty and in leaves
\* exactly when its references are empty.
C3_RootLeafConsistent ==
    \A k \in DOMAIN vertices :
        /\ k \in roots <=> vertices[k].sources = {}
        /\ k \in leaves <=> vertices[k].references = {}

\* add_vertices was just called, and the graph holds a vertex outside roots, a
\* vertex outside leaves, and a vertex in both.
C3_Witness ==
    /\ call.op = "add_vertices"
    /\ \E k \in DOMAIN vertices : k \notin roots
    /\ \E k \in DOMAIN vertices : k \notin leaves
    /\ \E k \in DOMAIN vertices : k \in roots \cap leaves

\* ---------------------------------------------------------------------- C4
\* C4 (acceptance of safe edges): in a graph built by add_edge and
\* extend_from_edges alone, add_edge on a pair (s, r) with s # r and no directed
\* path from r to s returns with the check passed and (s, r) in edges.
C4_SafeEdgeAccepted ==
    \A s \in Keys, r \in Keys, d \in Payloads :
        (s # r /\ ~HasPath(edges, r, s)) =>
            LET outs == add_edge(Graph, new_pair(s, d, r, d))
            IN  /\ outs # {}
                /\ \A out \in outs : out.ok /\ edge_new(s, r) \in out.g.edges

\* An add_edge was just accepted into a graph of two or more edges, and a safe
\* pair that is not yet an edge remains.
C4_Witness ==
    /\ call.op = "add_edge" /\ call.ok
    /\ Cardinality(edges) >= 2
    /\ \E s \in Keys, r \in Keys :
        s # r /\ ~HasPath(edges, r, s) /\ edge_new(s, r) \notin edges

\* ---------------------------------------------------------------------- C5
\* C5 (edge endpoints exist): both keys of every edge are keys of vertices, and
\* the stored keys are exactly the keys that appeared in an accepted edge or in
\* an add_vertex call, so len() counts them.
C5_EndpointsStored ==
    /\ \A e \in edges : has_vertex(Graph, e.source) /\ has_vertex(Graph, e.reference)
    /\ DOMAIN vertices = seenKeys
    /\ len(Graph) = Cardinality(seenKeys)

\* An add_edge between two absent keys was just accepted into a graph that
\* already held a vertex.
C5_Witness ==
    /\ call.op = "add_edge" /\ call.ok
    /\ Cardinality(edges) = 1
    /\ len(Graph) = 3

\* ---------------------------------------------------------------------- C6
\* C6 (neighbour queries): after add_edge / extend_from_edges calls, for every
\* edge (s, r) the vertex stored under s answers is_reference(r) and the vertex
\* stored under r answers is_source(s).
C6_NeighboursReflectEdges ==
    \A e \in edges :
        /\ has_vertex(Graph, e.source) /\ has_vertex(Graph, e.reference)
        /\ is_reference(vertices[e.source], e.reference)
        /\ is_source(vertices[e.reference], e.source)

\* extend_from_edges was just called and one vertex has two sources or two
\* references.
C6_Witness ==
    /\ call.op = "extend_from_edges"
    /\ \E k \in DOMAIN vertices :
        n_sources(vertices[k]) = 2 \/ n_references(vertices[k]) = 2

\* ---------------------------------------------------------------------- C7
\* C7 (idempotence of resubmission): when add_edge has accepted a pair, a second
\* add_edge of the same pair of keys (whatever payloads the caller's vertices
\* carry) leaves the graph as the first left it: n_edges() and every stored
\* vertex's n_sources() and n_references() included.
C7_ResubmissionIdempotent ==
    \A s \in Keys, r \in Keys, d1 \in Payloads, d2 \in Payloads :
        \A first \in add_edge(Graph, new_pair(s, d1, r, d1)) :
            first.ok =>
                \A second \in add_edge(first.g, new_pair(s, d2, r, d2)) :
                    /\ second.g = first.g
                    /\ n_edges(second.g) = n_edges(first.g)
                    /\ \A k \in DOMAIN first.g.vertices :
                        /\ n_sources(second.g.vertices[k]) = n_sources(first.g.vertices[k])
                        /\ n_references(second.g.vertices[k])
                               = n_references(first.g.vertices[k])

\* An add_edge was just accepted, and submitting one of the graph's edges again
\* with the other payload passes the check.
C7_Witness ==
    /\ call.op = "add_edge" /\ call.ok
    /\ \E e \in edges :
        \E second \in add_edge(Graph, new_pair(e.source, "q", e.reference, "q")) :
            second.ok

\* ---------------------------------------------------------------------- C8
\* The sequence lists every stored key exactly once.
ListsEveryVertexOnce(order) ==
    /\ {order[i] : i \in 1..Len(order)} = DOMAIN vertices
    /\ Len(order) = Cardinality(DOMAIN vertices)

\* u comes before w in the sequence.
Precedes(order, u, w) ==
    \E i \in 1..Len(order), j \in 1..Len(order) : i < j /\ order[i] = u /\ order[j] = w

\* C8 (topological order validity): whenever topological_sort returns a
\* sequence, it holds every vertex key exactly once and puts u before w for
\* every edge (u, w).
C8_TopologicalOrderValid ==
    \A o \in topological_sort(Graph) :
        o.res = "Ok" =>
            /\ ListsEveryVertexOnce(o.order)
            /\ \A e \in edges : Precedes(o.order, e.source, e.reference)

\* ---------------------------------------------------------------------- C9
\* C9 (roots and leaves shrink monotonically): a key that a call took out of
\* roots is never in roots again, and a key that a call took out of leaves is
\* never in leaves again.
C9_RemovedStayOut ==
    /\ removedRoots \cap roots = {}
    /\ removedLeaves \cap leaves = {}

\* --------------------------------------------------------------------- C10
\* C10 (neighbour sets only grow): in every step, each stored vertex's sources
\* and references after the step include what they were before it.
C10_NeighbourSetsGrow ==
    [][\A k \in DOMAIN vertices :
           /\ k \in DOMAIN vertices'
           /\ vertices[k].sources \subseteq vertices'[k].sources
           /\ vertices[k].references \subseteq vertices'[k].references]_vars

\* --------------------------------------------------------------------- C11
\* C11 (insert-only growth): in every step of every operation, the edges after
\* the step include the edges before it and the stored keys after the step
\* include the stored keys before it, so len() and n_edges() never decrease.
C11_InsertOnly ==
    [][/\ edges \subseteq edges'
       /\ DOMAIN vertices \subseteq DOMAIN vertices'
       /\ Cardinality(DOMAIN vertices) <= Cardinality(DOMAIN vertices')
       /\ Cardinality(edges) <= Cardinality(edges')]_vars

\* add_vertex has just replaced the stored vertex of an edge's endpoint (its
\* neighbour sets are empty again) in a graph of three vertices.
C11_Witness ==
    /\ call.op = "add_vertex"
    /\ len(Graph) = 3
    /\ \E e \in edges : vertices[e.source].references = {}

\* --------------------------------------------------------------------- C12
RECURSIVE add_edges_in_order(_, _)
\* The graphs left by add_edge on each pair of es, one call after the other.
add_edges_in_order(g, es) ==
    IF es = <<>> THEN {g}
    ELSE UNION {add_edges_in_order(first.g, Tail(es)) : first \in add_edge(g, Head(es))}

\* C12 (batch equals sequence): from any graph, extend_from_edges(es) leaves
\* exactly the graphs that add_edge on each pair of es in order leaves; a pair
\* dropped at its turn does not stop the pairs after it.
C12_BatchEqualsSequence ==
    \A ks \in EdgeBatches, d \in Payloads :
        LET es == edge_slice(ks, d)
            batch == extend_from_edges(Graph, es)
        IN  /\ {out.g : out \in batch} = add_edges_in_order(Graph, es)
            /\ \A out \in batch : out.g.edges = edges \cup out.accepted

\* extend_from_edges was just called, and a slice exists whose first pair the
\* graph drops and whose second pair it accepts as a new edge.
C12_Witness ==
    /\ call.op = "extend_from_edges"
    /\ \E ks \in EdgeBatches :
        /\ Len(ks) = 2
        /\ \A first \in add_edge(Graph, new_pair(ks[1][1], "p", ks[1][2], "p")) : ~first.ok
        /\ \E out \in extend_from_edges(Graph, edge_slice(ks, "p")) :
            /\ out.accepted = {edge_new(ks[2][1], ks[2][2])}
            /\ edge_new(ks[2][1], ks[2][2]) \notin edges

\* --------------------------------------------------------------------- C13
\* C13 (empty graph): a freshly constructed BullDag has len() = 0, is_empty()
\* true, n_edges() = 0, n_roots() = 0 and n_leaves() = 0.
C13_FreshGraphEmpty ==
    call.op = "new" =>
        /\ len(Graph) = 0
        /\ is_empty(Graph)
        /\ n_edges(Graph) = 0
        /\ n_roots(Graph) = 0
        /\ n_leaves(Graph) = 0

\* The graph as BullDag::new() returned it, before any call.
C13_Witness == call.op = "new" /\ Graph = new_graph /\ seenKeys = {}

\* --------------------------------------------------------------------- C14
\* C14 (degenerate fast path): when the graph is non-empty and has zero roots
\* or zero leaves, add_edge drops every submission and leaves the graph as it
\* was, whatever pair of vertices is submitted; on the empty graph neither
\* fast-path test fires, so a pair of two different keys is accepted.
C14_DegenerateFastPath ==
    /\ (~is_empty(Graph) /\ (n_roots(Graph) = 0 \/ n_leaves(Graph) = 0)) =>
            \A s \in Keys, r \in Keys, d \in Payloads :
                \A vs \in BuiltVertices(s, d), vr \in BuiltVertices(r, d) :
                    LET outs == add_edge(Graph, <<vs, vr>>)
                    IN  outs # {} /\ \A out \in outs : ~out.ok /\ out.g = Graph
    /\ is_empty(Graph) =>
            /\ ~auto_source_cycle(Graph) /\ ~auto_ref_cycle(Graph)
            /\ \A s \in Keys, r \in Keys :
                    s # r => \A out \in add_edge(Graph, new_pair(s, "p", r, "p")) : out.ok

\* An add_edge was just dropped by a graph that stores a vertex, has no root,
\* has a leaf and holds no edge (so that no submission could close a cycle).
C14_Witness ==
    /\ call.op = "add_edge" /\ ~call.ok
    /\ ~is_empty(Graph)
    /\ n_roots(Graph) = 0 /\ n_leaves(Graph) > 0
    /\ edges = {}

\* --------------------------------------------------------------------- C15
\* C15 (error condition of topological_sort): in every graph, topological_sort
\* returns WouldCycle exactly when roots is empty or leaves is empty, the empty
\* graph included, and otherwise returns Ok with a sequence of keys.
C15_SortErrorCondition ==
    /\ topological_sort(Graph) # {}
    /\ \A o \in topological_sort(Graph) :
        /\ o.res \in {"Ok", "WouldCycle"}
        /\ o.res = "WouldCycle" <=> (roots = {} \/ leaves = {})
        /\ o.res = "Ok" => \A i \in 1..Len(o.order) : o.order[i] \in DOMAIN vertices

\* --------------------------------------------------------------------- C16
\* The keys of a sequence, and whether it lists no key twice.
keys_of(stack) == {stack[i] : i \in 1..Len(stack)}

no_duplicates(stack) == Cardinality(keys_of(stack)) = Len(stack)

\* The vertices a trace can be asked about for key k: the stored one, or one
\* the caller builds.
TraceTargets(k) ==
    {vertex_new(d, k) : d \in Payloads} \cup
    (IF has_vertex(Graph, k) THEN {vertices[k]} ELSE {})

\* C16 (trace content): in every reachable graph, trace(v, Source) returns,
\* without duplicates, exactly v's key and every key with a directed path of
\* edges to v; trace(v, Reference) returns, without duplicates, exactly v's key
\* and every key a directed path of edges reaches from v.
C16_TraceContent ==
    \A k \in Keys :
        \A v \in TraceTargets(k) :
            /\ trace(Graph, v, "Source") # {}
            /\ \A o \in trace(Graph, v, "Source") :
                /\ o.done
                /\ keys_of(o.stack) = {k} \cup {x \in Keys : HasPath(edges, x, k)}
                /\ no_duplicates(o.stack)
            /\ trace(Graph, v, "Reference") # {}
            /\ \A o \in trace(Graph, v, "Reference") :
                /\ o.done
                /\ keys_of(o.stack) = {k} \cup reach_from(edges, {k}, {})
                /\ no_duplicates(o.stack)

\* An add_edge was just accepted, the graph holds the three edges of a DAG on
\* three keys, and one key's Source trace lists all three keys.
C16_Witness ==
    /\ call.op = "add_edge" /\ call.ok
    /\ Cardinality(edges) = 3
    /\ \E k \in DOMAIN vertices :
        \E o \in trace(Graph, vertices[k], "Source") : o.done /\ Len(o.stack) = 3

\* --------------------------------------------------------------------- C17
\* C17 (trace post-order): in the sequence trace(v, Source) returns, u comes
\* before w for every edge (u, w) whose keys are both in the sequence, and v's
\* key is last; in trace(v, Reference), w comes before u for every such edge
\* and v's key is last.
C17_TracePostOrder ==
    \A k \in Keys :
        \A v \in TraceTargets(k) :
            /\ \A o \in trace(Graph, v, "Source") :
                /\ o.done /\ Len(o.stack) > 0
                /\ o.stack[Len(o.stack)] = k
                /\ \A e \in edges :
                    {e.source, e.reference} \subseteq keys_of(o.stack) =>
                        Precedes(o.stack, e.source, e.reference)
            /\ \A o \in trace(Graph, v, "Reference") :
                /\ o.done /\ Len(o.stack) > 0
                /\ o.stack[Len(o.stack)] = k
                /\ \A e \in edges :
                    {e.source, e.reference} \subseteq keys_of(o.stack) =>
                        Precedes(o.stack, e.reference, e.source)

\* extend_from_edges was just called, the graph holds three edges, and one
\* key's Reference trace lists the two other keys before it.
C17_Witness ==
    /\ call.op = "extend_from_edges"
    /\ Cardinality(edges) = 3
    /\ \E k \in DOMAIN vertices :
        \E o \in trace(Graph, vertices[k], "Reference") :
            o.done /\ Len(o.stack) = 3 /\ o.stack[3] = k

\* --------------------------------------------------------------------- C18
\* C18 (trace termination): in every graph the insertion operations reach, the
\* walk of trace(v, Source) and of trace(v, Reference) returns for every vertex
\* v, stored or not, under every iteration order, and so the check of every
\* add_edge call returns.
C18_TraceTerminates ==
    /\ \A k \in Keys, direction \in {"Source", "Reference"} :
        \A v \in TraceTargets(k) :
            /\ trace(Graph, v, direction) # {}
            /\ \A o \in trace(Graph, v, direction) : o.done
    /\ \A s \in Keys, r \in Keys :
        LET results == check_cycles(Graph, new_pair(s, "p", r, "p"))
        IN  results # {} /\ "Overflow" \notin results

\* add_vertex was just called on a graph of two edges in which one key's walk
\* goes through both other keys.
C18_Witness ==
    /\ call.op = "add_vertex"
    /\ Cardinality(edges) = 2
    /\ \E k \in Keys, direction \in {"Source", "Reference"} :
        \E o \in trace(Graph, vertex_new("p", k), direction) : o.done /\ Len(o.stack) = 3

\* --------------------------------------------------------------------- C19
\* C19 (add_vertex effect and frame): from every graph and for every caller
\* vertex v, add_vertex(v) stores v under v.index in place of any vertex stored
\* there, puts v.index in roots when v.sources is empty and in leaves when
\* v.references is empty, and changes nothing else: edges, the other stored
\* vertices and the other keys' membership in roots and leaves stay, and no key
\* leaves roots or leaves.
C19_AddVertexFrame ==
    \A k \in Keys, d \in Payloads :
        \A v \in BuiltVertices(k, d) :
            LET after == add_vertex(Graph, v)
            IN  /\ DOMAIN after.vertices = DOMAIN vertices \cup {k}
                /\ after.vertices[k] = v
                /\ \A x \in DOMAIN vertices \ {k} : after.vertices[x] = vertices[x]
                /\ after.roots = roots \cup (IF v.sources = {} THEN {k} ELSE {})
                /\ after.leaves = leaves \cup (IF v.references = {} THEN {k} ELSE {})
                /\ after.edges = edges

\* add_vertex has just replaced a stored root by a vertex that has a source:
\* the key is still in roots, and another vertex is stored beside it.
C19_Witness ==
    /\ call.op = "add_vertex"
    /\ len(Graph) = 2
    /\ \E k \in DOMAIN vertices : k \in roots /\ vertices[k].sources # {}

\* --------------------------------------------------------------------- C20
\* C20 (stored vertex wins on add_edge): when add_edge accepts a pair (s, r)
\* of caller-built vertices and s or r is already stored, that stored vertex keeps its payload and its
\* neighbour sets and gains only the key of the edge's other end; the payload
\* and the neighbour sets of the caller's vertex for that key are ignored.
C20_StoredVertexWins ==
    \A s \in BuiltKeys, r \in BuiltKeys, d \in Payloads :
        \A vs \in BuiltVertices(s, d), vr \in BuiltVertices(r, d) :
            \A out \in add_edge(Graph, <<vs, vr>>) :
                out.ok =>
                    \A k \in {s, r} \cap DOMAIN vertices :
                        /\ out.g.vertices[k].data = vertices[k].data
                        /\ out.g.vertices[k].index = k
                        /\ out.g.vertices[k].sources
                               = vertices[k].sources \cup (IF k = r THEN {s} ELSE {})
                        /\ out.g.vertices[k].references
                               = vertices[k].references \cup (IF k = s THEN {r} ELSE {})

\* An add_edge naming a stored key was just accepted: the graph's one edge
\* starts at a key that is in roots and has a source, which only a vertex
\* stored by an earlier add_vertex can be.
C20_Witness ==
    /\ call.op = "add_edge" /\ call.ok
    /\ Cardinality(edges) = 1
    /\ \E e \in edges : e.source \in roots /\ vertices[e.source].sources # {}

\* --------------------------------------------------------------------- C21
\* The keys a vertex lists as its own neighbour.
lists_itself(v) == v.index \in v.sources \cup v.references

\* C21 (self-loops are always rejected): in every graph, the empty one
\* included, add_edge on a pair whose two keys are equal returns with the graph
\* unchanged, whatever the two caller vertices carry; and after an add_edge no
\* stored vertex lists its own key unless it did before the call or the
\* caller's vertex, stored as handed over, already did.
C21_SelfLoopRejected ==
    /\ \A k \in Keys, d \in CallerPayloads :
        \A vs \in BuiltVertices(k, d), vr \in BuiltVertices(k, d) :
            LET outs == add_edge(Graph, <<vs, vr>>)
            IN  outs # {} /\ \A out \in outs : ~out.ok /\ out.g = Graph
    /\ \A s \in BuiltKeys, r \in BuiltKeys, d \in CallerPayloads :
        \A vs \in BuiltVertices(s, d), vr \in BuiltVertices(r, d) :
            \A out \in add_edge(Graph, <<vs, vr>>) :
                \A k \in DOMAIN out.g.vertices :
                    lists_itself(out.g.vertices[k]) =>
                        \/ has_vertex(Graph, k) /\ lists_itself(vertices[k])
                        \/ k = s /\ lists_itself(vs)
                        \/ k = r /\ lists_itself(vr)

\* An add_edge was just dropped by a graph that has a root and a leaf and holds
\* no edge: no fast path fired and no path exists, so the pair was a self-loop.
C21_Witness ==
    /\ call.op = "add_edge" /\ ~call.ok
    /\ ~is_empty(Graph)
    /\ roots # {} /\ leaves # {}
    /\ edges = {}

\* --------------------------------------------------------------------- C22
\* C22 (fast path unreachable by edge insertion): in every non-empty graph
\* reached from the empty one by add_edge / extend_from_edges on Vertex::new
\* vertices, roots holds a key and leaves holds a key, so neither fast-path
\* test fires (nor does it on the empty graph).
C22_FastPathNeverFires ==
    /\ ~is_empty(Graph) => n_roots(Graph) >= 1 /\ n_leaves(Graph) >= 1
    /\ ~auto_source_cycle(Graph)
    /\ ~auto_ref_cycle(Graph)

\* extend_from_edges was just called and left a chain over three vertices: one
\* root, one leaf, and a vertex that is neither.
C22_Witness ==
    /\ call.op = "extend_from_edges"
    /\ len(Graph) = 3
    /\ n_roots(Graph) = 1 /\ n_leaves(Graph) = 1
    /\ roots \cap leaves = {}

\* --------------------------------------------------------------------- C23
\* C23 (neighbour sets hold nothing but committed edges): in every graph
\* reached by add_edge / extend_from_edges on Vertex::new vertices, a key r is
\* in a stored vertex v's references only if (v.index, r) is in edges, and a key
\* s is in its sources only if (s, v.index) is in edges.
C23_NeighboursOnlyFromEdges ==
    \A k \in DOMAIN vertices :
        /\ vertices[k].index = k
        /\ \A r \in vertices[k].references : edge_new(k, r) \in edges
        /\ \A s \in vertices[k].sources : edge_new(s, k) \in edges

\* An add_edge was just dropped by a graph of three edges in which one vertex
\* has two sources.
C23_Witness ==
    /\ call.op = "add_edge" /\ ~call.ok
    /\ Cardinality(edges) = 3
    /\ \E k \in DOMAIN vertices : n_sources(vertices[k]) = 2

\* --------------------------------------------------------------------- C24
\* add_edge drops the pair (s, r) of Vertex::new vertices in the graph g.
Rejects(g, s, r) == \A out \in add_edge(g, new_pair(s, "p", r, "p")) : ~out.ok

\* C24 (rejection is permanent): in runs of add_edge / extend_from_edges, a pair
\* (s, r) that add_edge drops before a step is dropped after it too, whatever
\* the step accepted; so a pair dropped once is dropped in every later
\* submission.
C24_RejectionPermanent ==
    [][\A s \in Keys, r \in Keys : Rejects(Graph, s, r) => Rejects(Graph, s, r)']_vars

\* extend_from_edges was just called, the graph holds two edges, and a pair of
\* two different keys that is not the reverse of an edge is dropped.
C24_Witness ==
    /\ call.op = "extend_from_edges"
    /\ Cardinality(edges) = 2
    /\ \E s \in Keys, r \in Keys :
        s # r /\ edge_new(r, s) \notin edges /\ Rejects(Graph, s, r)

\* --------------------------------------------------------------------- C25
\* C25 (the two trace checks agree): in every reachable graph and for every
\* pair (s, r), r's key is in trace(s, Source) exactly when s's key is in
\* trace(r, Reference), under every iteration order; so check_cycles never
\* passes its first test and fails its second.
C25_TraceChecksAgree ==
    \A s \in Keys, r \in Keys :
        \A vs \in TraceTargets(s), vr \in TraceTargets(r) :
            \A st \in trace(Graph, vs, "Source"), rt \in trace(Graph, vr, "Reference") :
                /\ st.done /\ rt.done
                /\ contains(st.stack, r) <=> contains(rt.stack, s)

\* add_vertices was just called on a graph in which some key is in another
\* key's Source trace without an edge between the two.
C25_Witness ==
    /\ call.op = "add_vertices"
    /\ \E s \in Keys, r \in Keys :
        /\ s # r
        /\ edge_new(r, s) \notin edges
        /\ \E st \in trace(Graph, vertex_new("p", s), "Source") : contains(st.stack, r)
        /\ \E rt \in trace(Graph, vertex_new("p", r), "Reference") : contains(rt.stack, s)

====
